---- MODULE Spec2Model ----
(***************************************************************************)
(* Account gate of the myNanny backend: AdminService (approveProfile,      *)
(* activateAfterPayment) and UsersService (createParent, createNanny,      *)
(* setBackgroundStatus, canAccessServices, updateUser, setAccountActive,   *)
(* suspend) over the "User" and "Profile" tables of the relational store.  *)
(* Every awaited store statement is one atomic step; requests interleave   *)
(* between their statements.                                               *)
(***************************************************************************)
EXTENDS Naturals, Sequences, FiniteSets, TLC

\* Largest value of the store's clock (NOW()).
MaxClock == 2

\* "approvedAt" TIMESTAMP(3), nullable: 0 stands for NULL, 1..MaxClock for a time.
NoStamp == 0

\* Concurrent requests.
Procs == {"p1", "p2"}
\* Identifiers the store issues for created users.
UserIds == {"u1"}
\* An identifier no user ever has.
Unknown == "u0"
CallIds == UserIds \cup {Unknown}
Emails == {"e1"}
Roles == {"PARENT", "NANNY"}

AccountStatus == {"PENDING_PAYMENT", "ACTIVE", "SUSPENDED"}
BackgroundStatus == {"PENDING", "PASSED", "FAILED"}

VARIABLES
  User,     \* table "User": set of rows, primary key id, unique email
  Profile,  \* table "Profile": set of rows, unique userId
  now,      \* the store's clock
  call,     \* call[p]: the request process p is serving
  trail,    \* trail[u]: observer, the operations completed on user u since its creation
  window    \* window[p]: observer, whether the store has shown all four gate
            \* conditions at once during p's canAccessServices call

vars == <<User, Profile, now, call, trail, window>>

UserRow ==
  [id : UserIds, email : Emails, role : Roles, accountStatus : AccountStatus,
   backgroundStatus : BackgroundStatus, approvedAt : 0..MaxClock]

ProfileRow == [userId : UserIds, isComplete : BOOLEAN]

\* prisma.user.findUnique({ where: { id } }): the empty set is null.
findUnique(id) == {r \in User : r.id = id}

\* The profile relation of a user (include / select profile): the empty set is null.
profileOf(id) == {q \in Profile : q.userId = id}

\* The one row of a singleton set.
TheRow(S) == CHOOSE r \in S : TRUE

------------------------------------------------------------------------------
\* Requests

Idle ==
  [op |-> "-", pc |-> "idle", userId |-> "-", arg |-> "-", seen |-> {},
   kind |-> "-", value |-> FALSE]

Begin(op, u, arg, pc, seen) ==
  [op |-> op, pc |-> pc, userId |-> u, arg |-> arg, seen |-> seen,
   kind |-> "-", value |-> FALSE]

\* The request has returned (kind "ok") or thrown (kind: the error).
Finish(c, kind, value) ==
  [c EXCEPT !.pc = "done", !.seen = {}, !.kind = kind, !.value = value]

\* UsersService.rethrow: the error kind the caller receives.
rethrow(e) ==
  IF e = "P2002" THEN "Conflict"
  ELSE IF e \in {"NotFound", "Conflict"} THEN e
  ELSE "Internal"

\* The outcome of a UsersService method body wrapped in try / catch rethrow.
Caught(kind) == IF kind = "ok" THEN "ok" ELSE rethrow(kind)

------------------------------------------------------------------------------
\* Observer: the operations completed on a user, kept while they follow Scenario.

Scenario ==
  << <<"create", "-">>, <<"activateAfterPayment", "-">>,
     <<"setBackgroundStatus", "PASSED">>, <<"approveProfile", "-">> >>

\* create, then an approveProfile that stops before its approvedAt write, then an
\* approveProfile that returns.
Retry ==
  << <<"create", "-">>, <<"approveProfile", "ap_stamp">>, <<"approveProfile", "-">> >>

Untracked == << <<"other", "-">> >>

IsPrefix(s, t) == Len(s) <= Len(t) /\ \A i \in 1..Len(s) : s[i] = t[i]

Extend(h, op) ==
  IF \E s \in {Scenario, Retry} : IsPrefix(Append(h, op), s)
  THEN Append(h, op)
  ELSE Untracked

\* Operation op with argument arg has completed on user u.
Track(u, op, arg) ==
  trail' = [x \in UserIds |-> IF x = u THEN Extend(trail[x], <<op, arg>>) ELSE trail[x]]

------------------------------------------------------------------------------
\* The store's statements

\* Mutant: activation guarded against a suspended account.
updateAccountStatusUnlessSuspended(id, status) ==
  {IF r.id = id /\ ~(status = "ACTIVE" /\ r.accountStatus = "SUSPENDED")
     THEN [r EXCEPT !.accountStatus = status] ELSE r : r \in User}

\* Mutant: suspension also revokes the approval.
updateAccountStatusRevoking(id, status) ==
  {IF r.id = id
     THEN [r EXCEPT !.accountStatus = status,
                    !.approvedAt = IF status = "SUSPENDED" THEN NoStamp ELSE @]
     ELSE r : r \in User}

\* Mutant: suspension puts the account back to awaiting payment.
updateAccountStatusUnpaid(id, status) ==
  {IF r.id = id
     THEN [r EXCEPT !.accountStatus =
                      IF status = "SUSPENDED" THEN "PENDING_PAYMENT" ELSE status]
     ELSE r : r \in User}

\* prisma.user.update({ where: { id }, data: { accountStatus } }) on an existing row.
updateAccountStatus(id, status) ==
  {IF r.id = id THEN [r EXCEPT !.accountStatus = status] ELSE r : r \in User}

\* Mutant: a FAILED check cascades to the approval.
updateBackgroundStatusCascading(id, status) ==
  {IF r.id = id
     THEN [r EXCEPT !.backgroundStatus = status,
                    !.approvedAt = IF status = "FAILED" THEN NoStamp ELSE @]
     ELSE r : r \in User}

\* UPDATE "User" SET "backgroundStatus" = status WHERE "id" = id
updateBackgroundStatus(id, status) ==
  {IF r.id = id THEN [r EXCEPT !.backgroundStatus = status] ELSE r : r \in User}

\* Mutant: the approval UPDATE matches no row.
updateApprovedAtNoRow(id) == User

\* UPDATE "User" SET "approvedAt" = NOW() WHERE "id" = id
updateApprovedAt(id) ==
  {IF r.id = id THEN [r EXCEPT !.approvedAt = now] ELSE r : r \in User}

\* Mutant: the UPDATE matches no row.
updateIsCompleteNoRow(id) == Profile

\* UPDATE "Profile" SET "isComplete" = true WHERE "userId" = id
updateIsComplete(id) ==
  {IF q.userId = id THEN [q EXCEPT !.isComplete = TRUE] ELSE q : q \in Profile}

\* A new "User" row: the column defaults of the migrations.
newUser(id, email, role) ==
  [id |-> id, email |-> email, role |-> role, accountStatus |-> "PENDING_PAYMENT",
   backgroundStatus |-> "PENDING", approvedAt |-> NoStamp]

\* Mutant: profiles are created complete.
newProfileComplete(id) == [userId |-> id, isComplete |-> TRUE]

\* A "Profile" row created through the client (create / upsert): isComplete defaults.
newProfile(id) == [userId |-> id, isComplete |-> FALSE]

\* Mutant: the INSERT leaves isComplete to its default.
insertedProfileDefault(id) == [userId |-> id, isComplete |-> FALSE]

\* INSERT INTO "Profile" ("id","userId","isComplete") VALUES (gen_random_uuid(), id, true)
insertedProfile(id) == [userId |-> id, isComplete |-> TRUE]

------------------------------------------------------------------------------
\* UsersService.createParent / createNanny -> createUserWithRole

\* prisma.user.create with the optional nested profile create (one statement).
\* A taken email violates User_email_key: P2002, rethrown by createUserWithRole
\* and again by its caller.
createUserWithRole(p, op, email, role, withProfile) ==
  /\ call[p].pc = "idle"
  /\ IF \E r \in User : r.email = email
     THEN /\ call' = [call EXCEPT ![p] =
                        Finish(Begin(op, "-", "-", "idle", {}), Caught(Caught("P2002")), FALSE)]
          /\ UNCHANGED <<User, Profile, trail>>
     ELSE /\ \E id \in UserIds : findUnique(id) = {}
          /\ LET id == CHOOSE id \in UserIds : findUnique(id) = {} IN
               /\ User' = User \cup {newUser(id, email, role)}
               /\ Profile' = IF withProfile THEN Profile \cup {newProfile(id)} ELSE Profile
               /\ call' = [call EXCEPT ![p] =
                             Finish(Begin(op, id, "-", "idle", {}), Caught(Caught("ok")), FALSE)]
               /\ Track(id, "create", "-")
  /\ UNCHANGED now

createParent(p) ==
  \E email \in Emails, withProfile \in BOOLEAN :
    createUserWithRole(p, "createParent", email, "PARENT", withProfile)

createNanny(p) ==
  \E email \in Emails, withProfile \in BOOLEAN :
    createUserWithRole(p, "createNanny", email, "NANNY", withProfile)

------------------------------------------------------------------------------
\* prisma.user.update({ where: { id }, data: { accountStatus } }): a missing row
\* is the client's P2025; mapped says whether the caller wraps it in rethrow.
userUpdateStatus(p, op, u, status, mapped) ==
  /\ call[p].pc = "idle"
  /\ IF findUnique(u) = {}
     THEN /\ call' = [call EXCEPT ![p] =
                        Finish(Begin(op, u, "-", "idle", {}),
                               IF mapped THEN Caught("P2025") ELSE "P2025", FALSE)]
          /\ UNCHANGED <<User, trail>>
     ELSE /\ User' = updateAccountStatus(u, status)
          /\ call' = [call EXCEPT ![p] = Finish(Begin(op, u, "-", "idle", {}), "ok", FALSE)]
          /\ Track(u, op, "-")
  /\ UNCHANGED <<Profile, now>>

\* AdminService.activateAfterPayment: no try / catch.
activateAfterPayment(p) ==
  \E u \in CallIds : userUpdateStatus(p, "activateAfterPayment", u, "ACTIVE", FALSE)

\* UsersService.setAccountActive
setAccountActive(p) ==
  \E u \in CallIds : userUpdateStatus(p, "setAccountActive", u, "ACTIVE", TRUE)

\* UsersService.suspend
suspend(p) ==
  \E u \in CallIds : userUpdateStatus(p, "suspend", u, "SUSPENDED", TRUE)

------------------------------------------------------------------------------
\* UsersService.setBackgroundStatus

\* The raw UPDATE: no row matched is no error.
setBackgroundStatus_update(p) ==
  \E u \in CallIds, status \in BackgroundStatus :
    /\ call[p].pc = "idle"
    /\ User' = updateBackgroundStatus(u, status)
    /\ call' = [call EXCEPT ![p] = Begin("setBackgroundStatus", u, status, "sb_find", {})]
    /\ UNCHANGED <<Profile, now, trail>>

\* The read-back findUnique and the NotFound check.
setBackgroundStatus_find(p) ==
  LET c == call[p] IN
    /\ c.pc = "sb_find"
    /\ IF findUnique(c.userId) = {}
       THEN /\ call' = [call EXCEPT ![p] = Finish(c, Caught("NotFound"), FALSE)]
            /\ UNCHANGED trail
       ELSE /\ call' = [call EXCEPT ![p] = Finish(c, "ok", FALSE)]
            /\ Track(c.userId, "setBackgroundStatus", c.arg)
    /\ UNCHANGED <<User, Profile, now>>

------------------------------------------------------------------------------
\* UsersService.canAccessServices

\* Mutant: the gate as the method's comment lists it, without the approval.
gateWithoutApproval(user, approvedAt) ==
  /\ user.accountStatus = "ACTIVE"
  /\ \E q \in user.profile : q.isComplete
  /\ user.backgroundStatus = "PASSED"

\* The gate's conjunction over the selected user and the separately read approvedAt.
gate(user, approvedAt) ==
  LET isActive == user.accountStatus = "ACTIVE"
      hasCompleteProfile == \E q \in user.profile : q.isComplete
      bgPassed == user.backgroundStatus = "PASSED"
      adminApproved == approvedAt # NoStamp
  IN  isActive /\ hasCompleteProfile /\ bgPassed /\ adminApproved

\* findUnique with select { accountStatus, backgroundStatus, profile }.
canAccessServices_findUnique(p) ==
  \E u \in CallIds :
    /\ call[p].pc = "idle"
    /\ call' = [call EXCEPT ![p] =
                  Begin("canAccessServices", u, "-", "ca_raw",
                        {[accountStatus |-> r.accountStatus,
                          backgroundStatus |-> r.backgroundStatus,
                          profile |-> profileOf(u)] : r \in findUnique(u)})]
    /\ UNCHANGED <<User, Profile, now, trail>>

\* SELECT "approvedAt" FROM "User" WHERE "id" = $1 (no row: approvedAt null), then
\* the NotFound check on the first read and the conjunction.
canAccessServices_queryRaw(p) ==
  LET c == call[p]
      rows == {r.approvedAt : r \in findUnique(c.userId)}
      approvedAt == IF rows = {} THEN NoStamp ELSE TheRow(rows)
  IN  /\ c.pc = "ca_raw"
      /\ call' = [call EXCEPT ![p] =
                    IF c.seen = {}
                    THEN Finish(c, Caught("NotFound"), FALSE)
                    ELSE Finish(c, "ok", gate(TheRow(c.seen), approvedAt))]
      /\ UNCHANGED <<User, Profile, now, trail>>

------------------------------------------------------------------------------
\* AdminService.approveProfile (no try / catch: errors reach the caller as thrown)

\* findUnique with include { profile }; a complete profile skips the profile write.
approveProfile_findUnique(p) ==
  \E u \in CallIds :
    /\ call[p].pc = "idle"
    /\ call' = [call EXCEPT ![p] =
                  IF findUnique(u) = {}
                  THEN Finish(Begin("approveProfile", u, "-", "idle", {}), "NotFound", FALSE)
                  ELSE IF \E q \in profileOf(u) : q.isComplete
                  THEN Begin("approveProfile", u, "-", "ap_stamp", {})
                  ELSE Begin("approveProfile", u, "-", "ap_profile", profileOf(u))]
    /\ UNCHANGED <<User, Profile, now, trail>>

\* The raw INSERT (no profile was read) or the raw UPDATE (an incomplete one was).
\* An INSERT meeting a row of the same userId violates Profile_userId_key: the raw
\* statement fails (P2010).
approveProfile_profile(p) ==
  LET c == call[p] IN
    /\ c.pc = "ap_profile"
    /\ IF c.seen = {}
       THEN IF profileOf(c.userId) = {}
            THEN /\ Profile' = Profile \cup {insertedProfile(c.userId)}
                 /\ call' = [call EXCEPT ![p] = [c EXCEPT !.pc = "ap_stamp", !.seen = {}]]
                 /\ UNCHANGED trail
            ELSE /\ call' = [call EXCEPT ![p] = Finish(c, "P2010", FALSE)]
                 /\ Track(c.userId, "approveProfile", "failed")
                 /\ UNCHANGED Profile
       ELSE /\ Profile' = updateIsComplete(c.userId)
            /\ call' = [call EXCEPT ![p] = [c EXCEPT !.pc = "ap_stamp", !.seen = {}]]
            /\ UNCHANGED trail
    /\ UNCHANGED <<User, now>>

\* UPDATE "User" SET "approvedAt" = NOW()
approveProfile_stamp(p) ==
  LET c == call[p] IN
    /\ c.pc = "ap_stamp"
    /\ User' = updateApprovedAt(c.userId)
    /\ call' = [call EXCEPT ![p] = [c EXCEPT !.pc = "ap_find"]]
    /\ UNCHANGED <<Profile, now, trail>>

\* return findUnique
approveProfile_find(p) ==
  LET c == call[p] IN
    /\ c.pc = "ap_find"
    /\ call' = [call EXCEPT ![p] = Finish(c, "ok", FALSE)]
    /\ Track(c.userId, "approveProfile", "-")
    /\ UNCHANGED <<User, Profile, now>>

------------------------------------------------------------------------------
\* UsersService.updateUser

updateUser_findUnique(p) ==
  \E u \in CallIds, arg \in {"profile", "noprofile"} :
    /\ call[p].pc = "idle"
    /\ call' = [call EXCEPT ![p] =
                  IF findUnique(u) = {}
                  THEN Finish(Begin("updateUser", u, arg, "idle", {}), Caught("NotFound"), FALSE)
                  ELSE Begin("updateUser", u, arg, "uu_update", {})]
    /\ UNCHANGED <<User, Profile, now, trail>>

\* The profile upsert nested in prisma.user.update: create when the user has
\* none, else update bio / location / experience.
upsertProfile(id) ==
  IF profileOf(id) = {} THEN Profile \cup {newProfile(id)} ELSE Profile

\* prisma.user.update with fullName / password and the optional profile upsert.
updateUser_update(p) ==
  LET c == call[p] IN
    /\ c.pc = "uu_update"
    /\ IF findUnique(c.userId) = {}
       THEN /\ call' = [call EXCEPT ![p] = Finish(c, Caught("P2025"), FALSE)]
            /\ UNCHANGED <<Profile, trail>>
       ELSE /\ Profile' = IF c.arg = "profile" THEN upsertProfile(c.userId) ELSE Profile
            /\ call' = [call EXCEPT ![p] = Finish(c, "ok", FALSE)]
            /\ Track(c.userId, "updateUser", c.arg)
    /\ UNCHANGED <<User, now>>

------------------------------------------------------------------------------
\* The process serving a request stops between two of its statements (a crash,
\* a lost connection): the statements already executed stay in the store, the
\* others never run, and nothing wraps them in a transaction.
crash(p) ==
  LET c == call[p] IN
    /\ c.pc \notin {"idle", "done"}
    /\ call' = [call EXCEPT ![p] = Idle]
    /\ IF findUnique(c.userId) = {}
       THEN UNCHANGED trail
       ELSE Track(c.userId, c.op, c.pc)
    /\ UNCHANGED <<User, Profile, now>>

\* The caller takes the result; the process serves the next request.
Return(p) ==
  /\ call[p].pc = "done"
  /\ call' = [call EXCEPT ![p] = Idle]
  /\ UNCHANGED <<User, Profile, now, trail>>

\* Time passes.
Tick ==
  /\ now < MaxClock
  /\ now' = now + 1
  /\ UNCHANGED <<User, Profile, call, trail, window>>

\* The four gate conditions on user u in the store (U, P).
allFour(U, P, u) ==
  \E r \in U :
    /\ r.id = u
    /\ r.accountStatus = "ACTIVE"
    /\ \E q \in P : q.userId = u /\ q.isComplete
    /\ r.backgroundStatus = "PASSED"
    /\ r.approvedAt # NoStamp

\* Observer: a canAccessServices call between its two reads records whether the
\* store has shown all four conditions at once since the first read.
Observe ==
  window' = [q \in Procs |->
               IF call'[q].op # "canAccessServices" THEN FALSE
               ELSE IF call'[q].pc = "done" THEN window[q]
               ELSE \/ call[q].pc = "ca_raw" /\ window[q]
                    \/ allFour(User', Profile', call'[q].userId)]

Step(p) ==
  \/ createParent(p) /\ Observe
  \/ createNanny(p) /\ Observe
  \/ activateAfterPayment(p) /\ Observe
  \/ setAccountActive(p) /\ Observe
  \/ suspend(p) /\ Observe
  \/ setBackgroundStatus_update(p) /\ Observe
  \/ setBackgroundStatus_find(p) /\ Observe
  \/ canAccessServices_findUnique(p) /\ Observe
  \/ canAccessServices_queryRaw(p) /\ Observe
  \/ approveProfile_findUnique(p) /\ Observe
  \/ approveProfile_profile(p) /\ Observe
  \/ approveProfile_stamp(p) /\ Observe
  \/ approveProfile_find(p) /\ Observe
  \/ updateUser_findUnique(p) /\ Observe
  \/ updateUser_update(p) /\ Observe
  \/ crash(p) /\ Observe
  \/ Return(p) /\ Observe

\* The store after the migrations: no rows.
Init ==
  /\ User = {}
  /\ Profile = {}
  /\ now = 1
  /\ call = [p \in Procs |-> Idle]
  /\ trail = [u \in UserIds |-> <<>>]
  /\ window = [p \in Procs |-> FALSE]

Next == Tick \/ \E p \in Procs : Step(p)

\* Requests served concurrently, from the empty store.
Spec == Init /\ [][Next]_vars

\* Any store the schema admits: primary key and unique indexes, the foreign key
\* of "Profile", no approval stamped in the future.
InitSeq ==
  /\ now \in 1..MaxClock
  /\ \E D \in SUBSET UserIds : \E f \in [D -> UserRow] :
       /\ \A u \in D : f[u].id = u /\ f[u].approvedAt <= now
       /\ \A u, v \in D : f[u].email = f[v].email => u = v
       /\ User = {f[u] : u \in D}
       /\ \E E \in SUBSET D : \E g \in [E -> BOOLEAN] :
            Profile = {[userId |-> u, isComplete |-> g[u]] : u \in E}
  /\ call = [p \in Procs |-> Idle]
  /\ trail = [u \in UserIds |-> IF findUnique(u) = {} THEN <<>> ELSE Untracked]
  /\ window = [p \in Procs |-> FALSE]

NextSeq == Tick \/ Step("p1")

\* One caller, each request run to its end before the next: no interference.
SpecSeq == InitSeq /\ [][NextSeq]_vars

------------------------------------------------------------------------------
\* Properties

\* Process p holds the outcome of a request op.
Ended(p, op) == call[p].pc = "done" /\ call[p].op = op

Returned(p, op) == Ended(p, op) /\ call[p].kind = "ok"

hasCompleteProfile(u) == \E q \in profileOf(u) : q.isComplete

GateOps ==
  {"approveProfile", "activateAfterPayment", "setBackgroundStatus", "canAccessServices"}

C1_WitnessUnapproved ==
  \E p \in Procs : \E r \in User :
    /\ Returned(p, "canAccessServices") /\ call[p].userId = r.id /\ ~call[p].value
    /\ r.accountStatus = "ACTIVE" /\ hasCompleteProfile(r.id)
    /\ r.backgroundStatus = "PASSED" /\ r.approvedAt = NoStamp

\* C2: each gate operation called with an identifier of no user fails with NotFound.
C2_UnknownUserNotFound ==
  \A p \in Procs :
    (call[p].pc = "done" /\ call[p].op \in GateOps /\ call[p].userId = Unknown) =>
      call[p].kind = "NotFound"

\* The part of C2 the code keeps: approveProfile, setBackgroundStatus and
\* canAccessServices fail with NotFound on an identifier of no user.
C2_ThreeOpsNotFound ==
  \A p \in Procs :
    (call[p].pc = "done" /\ call[p].op \in GateOps \ {"activateAfterPayment"}
       /\ call[p].userId = Unknown) =>
      call[p].kind = "NotFound"

\* C3: when approveProfile has returned, the user has a profile with isComplete
\* true and a non-null approvedAt, whatever ran on the user meanwhile.
C3_ApprovedAfterApprove ==
  \A p \in Procs :
    Returned(p, "approveProfile") =>
      /\ hasCompleteProfile(call[p].userId)
      /\ \E r \in findUnique(call[p].userId) : r.approvedAt # NoStamp

\* approveProfile has returned while another request on the same user is under way.
C3_Witness ==
  \E p, q \in Procs :
    /\ Returned(p, "approveProfile")
    /\ call[q].pc \notin {"idle", "done"} /\ call[q].userId = call[p].userId

\* C4: approveProfile is idempotent: a second call in succession, on the user the
\* first call approved, leaves the state as the first call left it.
C4_ReapproveUnchanged ==
  [][\A p \in Procs :
       (/\ call[p].op = "approveProfile" /\ call[p].pc \notin {"idle", "done"}
        /\ call'[p] # call[p]
        /\ trail[call[p].userId] = Scenario)
       => (User' = User /\ Profile' = Profile)]_vars

\* C5: activateAfterPayment on an existing user leaves accountStatus ACTIVE
\* whatever it was, and changes nothing else of the user or its profile.
C5_ActivateSetsActive ==
  [][\A p \in Procs : \A r \in User :
       (/\ call[p].pc = "idle"
        /\ call'[p].pc = "done" /\ call'[p].op = "activateAfterPayment"
        /\ call'[p].userId = r.id)
       => /\ call'[p].kind = "ok"
          /\ User' = (User \ {r}) \cup {[r EXCEPT !.accountStatus = "ACTIVE"]}
          /\ Profile' = Profile]_vars

\* activateAfterPayment has returned after suspend did, and the account is ACTIVE.
C5_Witness ==
  \E p, q \in Procs : \E r \in User :
    /\ Returned(p, "suspend") /\ Returned(q, "activateAfterPayment")
    /\ call[p].userId = r.id /\ call[q].userId = r.id
    /\ r.accountStatus = "ACTIVE"

\* C6: a user fresh from createParent / createNanny, then activateAfterPayment,
\* setBackgroundStatus(PASSED), approveProfile and nothing else: canAccessServices
\* returns true.
C6_ScenarioGrantsAccess ==
  \A p \in Procs :
    (/\ Ended(p, "canAccessServices")
     /\ call[p].userId \in UserIds
     /\ trail[call[p].userId] = Scenario)
    => (call[p].kind = "ok" /\ call[p].value)

\* canAccessServices has answered after the scenario.
C6_Witness ==
  \E p \in Procs :
    /\ Returned(p, "canAccessServices")
    /\ call[p].userId \in UserIds
    /\ trail[call[p].userId] = Scenario

\* C7: setBackgroundStatus overwrites backgroundStatus with the given value and
\* leaves accountStatus, approvedAt and the profile as they were; its read-back
\* writes nothing.
C7_SetBackgroundFrame ==
  [][\A p \in Procs :
       /\ \A r \in User :
            (/\ call[p].pc = "idle" /\ call'[p].pc = "sb_find"
             /\ call'[p].userId = r.id)
            => /\ User' = (User \ {r}) \cup {[r EXCEPT !.backgroundStatus = call'[p].arg]}
               /\ Profile' = Profile
       /\ (call[p].pc = "sb_find" /\ call'[p].pc = "done")
            => (User' = User /\ Profile' = Profile)]_vars

\* setBackgroundStatus(FAILED) has returned on an approved, active user.
C7_Witness ==
  \E p \in Procs : \E r \in User :
    /\ Returned(p, "setBackgroundStatus") /\ call[p].arg = "FAILED"
    /\ call[p].userId = r.id
    /\ r.backgroundStatus = "FAILED" /\ r.accountStatus = "ACTIVE"
    /\ r.approvedAt # NoStamp

\* C8: isComplete becomes true only in approveProfile's profile write (so profiles
\* made at signup or by updateUser's upsert are not complete, and updateUser keeps
\* the flag), and it never turns from true to false.
C8_CompleteOnlyByApproval ==
  [][\A u \in UserIds :
       /\ (hasCompleteProfile(u)' /\ ~hasCompleteProfile(u))
            => \E p \in Procs :
                 /\ call[p].op = "approveProfile" /\ call[p].userId = u
                 /\ call[p].pc = "ap_profile" /\ call'[p].pc = "ap_stamp"
       /\ hasCompleteProfile(u) => hasCompleteProfile(u)']_vars

\* updateUser's upsert has returned and the user's profile is not complete.
C8_Witness ==
  \E p \in Procs :
    /\ Returned(p, "updateUser") /\ call[p].arg = "profile"
    /\ profileOf(call[p].userId) # {}
    /\ ~hasCompleteProfile(call[p].userId)

\* C9: approvedAt is changed only by approveProfile's stamp, and once non-null it
\* never becomes null again.
C9_ApprovedAtOnlyByApproval ==
  [][\A r \in User : \E r2 \in User' :
       /\ r2.id = r.id
       /\ r2.approvedAt # r.approvedAt
            => \E p \in Procs :
                 /\ call[p].op = "approveProfile" /\ call[p].userId = r.id
                 /\ call[p].pc = "ap_stamp" /\ call'[p].pc = "ap_find"
       /\ r.approvedAt # NoStamp => r2.approvedAt # NoStamp]_vars

\* suspend has returned on an approved user, who is still approved.
C9_Witness ==
  \E p \in Procs : \E r \in User :
    /\ Returned(p, "suspend") /\ call[p].userId = r.id
    /\ r.accountStatus = "SUSPENDED" /\ r.approvedAt # NoStamp

\* The accountStatus of user r changes from a to b in this step.
Moves(a, b) ==
  \E r \in User : \E r2 \in User' :
    r2.id = r.id /\ r.accountStatus = a /\ r2.accountStatus = b

\* C10: accountStatus moves only PENDING_PAYMENT -> ACTIVE, ACTIVE -> SUSPENDED and
\* SUSPENDED -> ACTIVE.
C10_OnlyListedTransitions ==
  [][\A a, b \in AccountStatus :
       (a # b /\ Moves(a, b))
       => <<a, b>> \in {<<"PENDING_PAYMENT", "ACTIVE">>, <<"ACTIVE", "SUSPENDED">>,
                        <<"SUSPENDED", "ACTIVE">>}]_vars

\* C10 as amended: accountStatus moves only PENDING_PAYMENT -> ACTIVE,
\* PENDING_PAYMENT -> SUSPENDED, ACTIVE -> SUSPENDED and SUSPENDED -> ACTIVE; it
\* never returns to PENDING_PAYMENT.
C10_NeverBackToPending ==
  [][\A a, b \in AccountStatus :
       (a # b /\ Moves(a, b))
       => <<a, b>> \in {<<"PENDING_PAYMENT", "ACTIVE">>, <<"PENDING_PAYMENT", "SUSPENDED">>,
                        <<"ACTIVE", "SUSPENDED">>, <<"SUSPENDED", "ACTIVE">>}]_vars

\* suspend has returned while the creating request still holds its result.
C10_Witness ==
  \E p, q \in Procs : \E r \in User :
    /\ Returned(p, "suspend") /\ call[p].userId = r.id
    /\ call[q].pc = "done" /\ call[q].op \in {"createParent", "createNanny"}
    /\ call[q].userId = r.id
    /\ r.accountStatus = "SUSPENDED"

\* The error kinds a caller is to receive.
ErrorKinds == {"NotFound", "Conflict", "Internal"}

\* C11: every failure of a gate operation reaches the caller as NotFound, Conflict
\* or Internal; no error of the store is surfaced unmapped.
C11_FailuresMapped ==
  \A p \in Procs :
    (call[p].pc = "done" /\ call[p].op \in GateOps /\ call[p].kind # "ok") =>
      call[p].kind \in ErrorKinds

\* The part of C11 the code keeps: the operations of UsersService, which wrap
\* their body in rethrow, fail only with one of the three kinds.
C11_UsersServiceMapped ==
  \A p \in Procs :
    (call[p].pc = "done" /\ call[p].kind # "ok"
       /\ call[p].op \notin {"approveProfile", "activateAfterPayment"}) =>
      call[p].kind \in ErrorKinds

\* C14: interleaved with another approveProfile or with updateUser's upsert on the
\* same existing user, an approveProfile call does not fail on the profile it
\* decided to insert, and the user ends with exactly one profile.
C14_ApproveSurvivesRace ==
  \A p \in Procs :
    Ended(p, "approveProfile") =>
      /\ call[p].kind \in {"ok", "NotFound"}
      /\ call[p].kind = "ok" => Cardinality(profileOf(call[p].userId)) = 1

\* The part of C14 the code keeps: a user never has two profiles, and has one
\* when approveProfile has returned.
C14_ExactlyOneProfile ==
  /\ \A u \in UserIds : Cardinality(profileOf(u)) <= 1
  /\ \A p \in Procs :
       Returned(p, "approveProfile") => Cardinality(profileOf(call[p].userId)) = 1

\* User u has a complete profile and no approval: what an approveProfile stopped
\* between its two writes leaves.
HalfApproved(u) ==
  hasCompleteProfile(u) /\ \E r \in findUnique(u) : r.approvedAt = NoStamp

C12_WitnessGate ==
  \E p \in Procs : \E r \in User :
    /\ Returned(p, "canAccessServices") /\ call[p].userId = r.id /\ ~call[p].value
    /\ r.accountStatus = "ACTIVE" /\ r.backgroundStatus = "PASSED"
    /\ HalfApproved(r.id)

\* C13: under every interleaving with the other operations on the same user, a
\* canAccessServices call that returns true does so only if some single store
\* state between its invocation and its return had accountStatus ACTIVE, a
\* complete profile, backgroundStatus PASSED and approvedAt non-null together.
C13_TrueOnlyIfHeldTogether ==
  \A p \in Procs :
    (Returned(p, "canAccessServices") /\ call[p].value) => window[p]

\* What does hold: each of the two reads is of a single store state, so a true
\* answer means the first three conditions held together at the first read and
\* approvedAt was non-null at the second.
C13_EachReadConsistent ==
  [][\A p \in Procs :
       (/\ call[p].op = "canAccessServices" /\ call[p].pc = "ca_raw"
        /\ call'[p].pc = "done" /\ call'[p].kind = "ok" /\ call'[p].value)
       => /\ \A r \in call[p].seen : gateWithoutApproval(r, NoStamp)
          /\ \A r \in findUnique(call[p].userId) : r.approvedAt # NoStamp]_vars

====
